---- MODULE Spec2Model ----
(***************************************************************************)
(* The acquisition pipeline of module-4/taxi_rides_ny/download_data.py:    *)
(* download_all_files drives one download_with_tracking task per entry of  *)
(* files_to_download under an asyncio.Semaphore of CONCURRENT_DOWNLOADS    *)
(* slots, with the consecutive-failure circuit breaker                     *)
(* (consecutive_failures, aborted) shared by the tasks' closures.          *)
(*                                                                         *)
(* The event loop is single-threaded: a task runs from one await to the    *)
(* next without interruption, so each action below is one such stretch of  *)
(* code.  asyncio.gather creates the tasks in list order and the           *)
(* semaphore wakes its waiters first-in first-out, so the tasks pass       *)
(* "async with semaphore" in list order; completions come in any order.    *)
(***************************************************************************)
EXTENDS Integers, Sequences, FiniteSets, TLC

\* ---------------------------------------------------------------- constants

CONCURRENT_DOWNLOADS == 4

MAX_CONSECUTIVE_FAILURES == 5

\* len(files) of TestDownloadAllFilesAbort: range(1, 13)
TEST_FILES == 12

\* ------------------------------------------------------------------- bounds

\* longest files_to_download of the general specification
MaxFiles == 6

\* longest selection explored with force set or with a second run of the
\* pipeline
MaxRerunFiles == 3

\* most groups in a configuration document with a "datasets" list
MaxGroups == 2

\* longest files_to_download of the runs in which every call fails
MaxFailFiles == 10

\* --------------------------------------------------------------- path names

Digit(d) ==
  CASE d = 0 -> "0" [] d = 1 -> "1" [] d = 2 -> "2" [] d = 3 -> "3"
    [] d = 4 -> "4" [] d = 5 -> "5" [] d = 6 -> "6" [] d = 7 -> "7"
    [] d = 8 -> "8" [] d = 9 -> "9"

RECURSIVE IntStr(_)
\* str(n) of a natural number
IntStr(n) == IF n < 10 THEN Digit(n) ELSE IntStr(n \div 10) \o Digit(n % 10)

\* f"{month:02d}"
Pad2(m) == IF m < 10 THEN "0" \o Digit(m) ELSE IntStr(m)

\* Path("data") / taxi_type / f"{taxi_type}_tripdata_{year}-{month:02d}.parquet"
ParquetPath(entry) ==
  "data/" \o entry[1] \o "/" \o entry[1] \o "_tripdata_" \o IntStr(entry[2])
    \o "-" \o Pad2(entry[3]) \o ".parquet"

\* files = [("yellow", 2019, m) for m in range(1, n + 1)]
YellowFiles(n) == [m \in 1..n |-> <<"yellow", 2019, m>>]

\* the values of a list
Range(seq) == {seq[k] : k \in 1..Len(seq)}

\* -------------------------------------------------------------------- state

VARIABLES
  files,                \* files_to_download: sequence of (taxi_type, year, month)
  force,                \* the force argument
  exists,               \* the output (.parquet) paths present on disk
  existsAtSelect,       \* history: exists when main built files_to_download
  run,                  \* which invocation of download_all_files (1 or 2)
  firstRunComplete,     \* history: run 1 returned a path for every entry
  mainpc,               \* main's position: "gather" (awaiting asyncio.gather)
                        \* and "returned" inside download_all_files;
                        \* validate | build | dry_run | download | load | done
                        \* in main
  sem,                  \* semaphore._value: free slots
  consecutive_failures,
  aborted,
  pc,                   \* per task: waiting | fetching | converting | returned
  results,              \* per task: what download_with_tracking returned
  dc,                   \* history, per task: download_and_convert's outcome:
                        \* not called | running | skipped | path | raised
  notices,              \* abort notices printed in this invocation
  streak,               \* history: download_and_convert calls that raised since
                        \* the last one that returned (or since the start)
  tripped,              \* history: streak has reached MAX_CONSECUTIVE_FAILURES
  successful_paths,     \* the list download_all_files returns
  failed_count,
  config,               \* what load_config returned
  configKind,           \* history: the shape config was drawn with
  args,                 \* parse_args(): taxi_type, year, month, dry_run, no_load
  raised,               \* the exception that ended main, or "none"
  errors,               \* validate_config's errors list
  new_files,            \* categorize_files' result in the dry run
  existing_files,
  tables                \* prod.<taxi_type>_tripdata: the files each was read from

vars == <<files, force, exists, existsAtSelect, run, firstRunComplete,
          mainpc, sem, consecutive_failures, aborted, pc, results, dc, notices,
          streak, tripped, successful_paths, failed_count,
          config, configKind, args, raised, errors, new_files, existing_files,
          tables>>

\* main's own state, untouched while download_all_files runs
cli == <<config, configKind, args, raised, errors, new_files, existing_files,
         tables>>

env == <<files, force, existsAtSelect, run, firstRunComplete, cli>>

Tasks == 1..Len(files)

PendingV == "pending"
NoneV == "None"
ExceptionV == "Exception"

\* fault variant: the filter drops None alone
IsPath_NotNone(r) == r \notin {PendingV, NoneV}

\* isinstance(r, Path)
IsPath(r) == r \notin {PendingV, NoneV, ExceptionV}

\* isinstance(r, Exception)
IsException(r) == r = ExceptionV

InFlight == {i \in Tasks : pc[i] \in {"fetching", "converting"}}

\* the task at the head of the semaphore's waiters
IsNextWaiter(i) ==
  /\ pc[i] = "waiting"
  /\ \A j \in Tasks : j < i => pc[j] # "waiting"

\* the closure state of one invocation: lines 145-148 and the task list 187-190
StartInvocation ==
  /\ sem' = CONCURRENT_DOWNLOADS
  /\ consecutive_failures' = 0
  /\ aborted' = FALSE
  /\ pc' = [i \in Tasks |-> "waiting"]
  /\ results' = [i \in Tasks |-> PendingV]
  /\ dc' = [i \in Tasks |-> "not called"]
  /\ notices' = 0
  /\ streak' = 0
  /\ tripped' = FALSE
  /\ successful_paths' = <<>>
  /\ failed_count' = 0
  /\ mainpc' = "gather"

InitInvocation ==
  /\ sem = CONCURRENT_DOWNLOADS
  /\ consecutive_failures = 0
  /\ aborted = FALSE
  /\ pc = [i \in Tasks |-> "waiting"]
  /\ results = [i \in Tasks |-> PendingV]
  /\ dc = [i \in Tasks |-> "not called"]
  /\ notices = 0
  /\ streak = 0
  /\ tripped = FALSE
  /\ successful_paths = <<>>
  /\ failed_count = 0
  /\ mainpc = "gather"

\* download_all_files called on its own, as the tests call it: nothing of
\* main is in play
NoMain ==
  /\ config = <<>>
  /\ configKind = "none"
  /\ args = <<>>
  /\ raised = "none"
  /\ errors = <<>>
  /\ new_files = <<>>
  /\ existing_files = <<>>
  /\ tables = <<>>

\* main hands over a selection built on a fresh data directory: the months
\* of one year of one type, or what build_file_list makes of
\* taxi_types: [yellow, green]; force is explored on the short selections
Init ==
  /\ \/ \E n \in 1..MaxFiles : files = YellowFiles(n)
     \/ files = <<<<"yellow", 2019, 1>>, <<"green", 2019, 1>>>>
  /\ force \in BOOLEAN
  /\ force => Len(files) <= MaxRerunFiles
  /\ exists = {}
  /\ existsAtSelect = exists
  /\ run = 1
  /\ firstRunComplete = FALSE
  /\ InitInvocation
  /\ NoMain

\* ------------------------------------------------- download_with_tracking

\* fault variant: a slot is taken without being counted
Acquire_NotCounted(s) == s

\* semaphore.acquire() and semaphore.release() on the counter
Acquire(s) == s - 1

\* fault variant: the slot is not handed back
Release_Lost(s) == s

Release(s) == s + 1

\* fault variant: the task does not look at the flag
SeesAbort_Never == FALSE

\* "if aborted:" at the head of the task, read under the slot
SeesAbort == aborted

\* fault variant: the skip decision rests on the disk as it was at selection
OutputExists_AtSelect(i) == ParquetPath(files[i]) \in existsAtSelect

\* fault variant: the existence check is lost
OutputExists_Never(i) == FALSE

\* parquet_path.exists() inside download_and_convert
OutputExists(i) == ParquetPath(files[i]) \in exists

\* fault variant: a success leaves the counter alone (total, not consecutive, failures)
ResetFailures_Kept(c) == c

\* the counter after "consecutive_failures = 0"
ResetFailures(c) == 0

\* fault variant: a success also lowers the flag
TrackSuccess_LowersFlag(i, path) ==
  /\ consecutive_failures' = 0
  /\ results' = [results EXCEPT ![i] = path]
  /\ aborted' = FALSE
  /\ UNCHANGED notices

\* the try branch after download_and_convert returned path
TrackSuccess(i, path) ==
  /\ consecutive_failures' = ResetFailures(consecutive_failures)
  /\ results' = [results EXCEPT ![i] = path]
  /\ UNCHANGED <<aborted, notices>>

\* fault variant: the breaker trips one failure late (> for >=)
TrackFailure_LateTrip(i) ==
  /\ consecutive_failures' = consecutive_failures + 1
  /\ IF consecutive_failures + 1 > MAX_CONSECUTIVE_FAILURES
       THEN aborted' = TRUE /\ notices' = notices + 1
       ELSE UNCHANGED <<aborted, notices>>
  /\ results' = [results EXCEPT ![i] = ExceptionV]

\* the except branch: count, trip the breaker at the threshold, return e
TrackFailure(i) ==
  /\ consecutive_failures' = consecutive_failures + 1
  /\ IF consecutive_failures + 1 >= MAX_CONSECUTIVE_FAILURES
       THEN aborted' = TRUE /\ notices' = notices + 1
       ELSE UNCHANGED <<aborted, notices>>
  /\ results' = [results EXCEPT ![i] = ExceptionV]

\* download_and_convert is over for task i: the record of what it did
Finish(i, outcome) ==
  /\ pc' = [pc EXCEPT ![i] = "returned"]
  /\ dc' = [dc EXCEPT ![i] = outcome]
  /\ streak' = IF outcome = "raised" THEN streak + 1 ELSE 0
  /\ tripped' = (tripped \/ (outcome = "raised" /\ streak + 1 >= MAX_CONSECUTIVE_FAILURES))

\* fault variant: a task turned away by the flag is recorded as one more failure
StartAborted_AsFailure(i) ==
  /\ mainpc = "gather" /\ IsNextWaiter(i) /\ sem > 0
  /\ aborted
  /\ sem' = sem
  /\ pc' = [pc EXCEPT ![i] = "returned"]
  /\ TrackFailure(i)
  /\ UNCHANGED <<env, exists, mainpc, dc, streak, tripped, successful_paths,
                 failed_count>>

\* the task gets its slot with the breaker tripped: return None
StartAborted(i) ==
  /\ mainpc = "gather" /\ IsNextWaiter(i) /\ sem > 0
  /\ SeesAbort
  /\ sem' = Release(Acquire(sem))
  /\ pc' = [pc EXCEPT ![i] = "returned"]
  /\ results' = [results EXCEPT ![i] = NoneV]
  /\ UNCHANGED <<env, exists, mainpc, consecutive_failures, aborted, dc, notices,
                 streak, tripped, successful_paths, failed_count>>

\* fault variant: a skipped entry goes by the counter without resetting it
StartSkip_KeepsCounter(i) ==
  /\ mainpc = "gather" /\ IsNextWaiter(i) /\ sem > 0
  /\ ~SeesAbort
  /\ OutputExists(i) /\ ~force
  /\ sem' = Release(Acquire(sem))
  /\ Finish(i, "skipped")
  /\ results' = [results EXCEPT ![i] = ParquetPath(files[i])]
  /\ UNCHANGED <<env, exists, mainpc, consecutive_failures, aborted, notices,
                 successful_paths, failed_count>>

\* the output is on disk and force is off: download_and_convert returns it at once
StartSkip(i) ==
  /\ mainpc = "gather" /\ IsNextWaiter(i) /\ sem > 0
  /\ ~SeesAbort
  /\ OutputExists(i) /\ ~force
  /\ sem' = Release(Acquire(sem))
  /\ Finish(i, "skipped")
  /\ TrackSuccess(i, ParquetPath(files[i]))
  /\ UNCHANGED <<env, exists, mainpc, successful_paths, failed_count>>

\* download_and_convert raises before its first await: data_dir.mkdir (which
\* cannot fail on the directory that holds an existing output) or unlink
StartFail(i) ==
  /\ mainpc = "gather" /\ IsNextWaiter(i) /\ sem > 0
  /\ ~SeesAbort
  /\ OutputExists(i) => force
  /\ sem' = Release(Acquire(sem))
  /\ Finish(i, "raised")
  /\ TrackFailure(i)
  /\ UNCHANGED <<env, exists, mainpc, successful_paths, failed_count>>

\* download_and_convert reaches "await download_file": under force the old
\* output is unlinked first
StartFetch(i) ==
  /\ mainpc = "gather" /\ IsNextWaiter(i) /\ sem > 0
  /\ ~SeesAbort
  /\ OutputExists(i) => force
  /\ sem' = Acquire(sem)
  /\ exists' = exists \ {ParquetPath(files[i])}
  /\ pc' = [pc EXCEPT ![i] = "fetching"]
  /\ dc' = [dc EXCEPT ![i] = "running"]
  /\ UNCHANGED <<env, mainpc, consecutive_failures, aborted, results, notices,
                 streak, tripped, successful_paths, failed_count>>

\* fault variant: the slot is given up when the fetch is over
FetchOk_ReleasesSlot(i) ==
  /\ mainpc = "gather" /\ pc[i] = "fetching"
  /\ pc' = [pc EXCEPT ![i] = "converting"]
  /\ sem' = sem + 1
  /\ UNCHANGED <<env, exists, mainpc, consecutive_failures, aborted, results,
                 dc, notices, streak, tripped, successful_paths, failed_count>>

\* download_file completed: on to run_in_executor(convert_to_parquet)
FetchOk(i) ==
  /\ mainpc = "gather" /\ pc[i] = "fetching"
  /\ pc' = [pc EXCEPT ![i] = "converting"]
  /\ UNCHANGED <<env, exists, mainpc, sem, consecutive_failures, aborted, results,
                 dc, notices, streak, tripped, successful_paths, failed_count>>

\* fault variant: the failure that trips the breaker cancels the tasks in flight
FetchFail_Cancelling(i) ==
  /\ mainpc = "gather" /\ pc[i] = "fetching"
  /\ consecutive_failures' = consecutive_failures + 1
  /\ streak' = streak + 1
  /\ dc' = [dc EXCEPT ![i] = "raised"]
  /\ IF consecutive_failures + 1 >= MAX_CONSECUTIVE_FAILURES
       THEN /\ aborted' = TRUE /\ tripped' = TRUE /\ notices' = notices + 1
            /\ pc' = [j \in Tasks |-> IF j \in InFlight THEN "returned" ELSE pc[j]]
            /\ results' = [j \in Tasks |-> IF j = i THEN ExceptionV
                                              ELSE IF j \in InFlight THEN NoneV
                                              ELSE results[j]]
            /\ sem' = sem + Cardinality(InFlight)
       ELSE /\ UNCHANGED <<aborted, tripped, notices>>
            /\ pc' = [pc EXCEPT ![i] = "returned"]
            /\ results' = [results EXCEPT ![i] = ExceptionV]
            /\ sem' = sem + 1
  /\ UNCHANGED <<env, exists, mainpc, successful_paths, failed_count>>

\* fault variant: the failure path leaves without handing the slot back
FetchFail_KeepsSlot(i) ==
  /\ mainpc = "gather" /\ pc[i] = "fetching"
  /\ sem' = sem
  /\ Finish(i, "raised")
  /\ TrackFailure(i)
  /\ UNCHANGED <<env, exists, mainpc, successful_paths, failed_count>>

\* download_file raised (HTTP status, connection, timeout)
FetchFail(i) ==
  /\ mainpc = "gather" /\ pc[i] = "fetching"
  /\ sem' = Release(sem)
  /\ Finish(i, "raised")
  /\ TrackFailure(i)
  /\ UNCHANGED <<env, exists, mainpc, successful_paths, failed_count>>

\* convert_to_parquet wrote the output; download_and_convert returns its path
ConvertOk(i) ==
  /\ mainpc = "gather" /\ pc[i] = "converting"
  /\ exists' = exists \cup {ParquetPath(files[i])}
  /\ sem' = Release(sem)
  /\ Finish(i, "path")
  /\ TrackSuccess(i, ParquetPath(files[i]))
  /\ UNCHANGED <<env, mainpc, successful_paths, failed_count>>

\* convert_to_parquet raised
ConvertFail(i) ==
  /\ mainpc = "gather" /\ pc[i] = "converting"
  /\ sem' = Release(sem)
  /\ Finish(i, "raised")
  /\ TrackFailure(i)
  /\ UNCHANGED <<env, exists, mainpc, successful_paths, failed_count>>

\* --------------------------------------------------------- download_all_files

\* gather returned: filter the results and return successful_paths
Return ==
  /\ mainpc = "gather"
  /\ \A i \in Tasks : pc[i] = "returned"
  /\ successful_paths' = SelectSeq(results, IsPath)
  /\ failed_count' = Cardinality({i \in Tasks : IsException(results[i])})
  /\ mainpc' = "returned"
  /\ UNCHANGED <<env, exists, sem, consecutive_failures, aborted, pc, results, dc,
                 notices, streak, tripped>>

\* the pipeline is run again over the same selection
Restart ==
  /\ mainpc = "returned" /\ run = 1
  /\ Len(files) <= MaxRerunFiles
  /\ run' = 2
  /\ firstRunComplete' = (Len(successful_paths) = Len(files))
  /\ existsAtSelect' = exists
  /\ StartInvocation
  /\ UNCHANGED <<files, force, exists, cli>>

\* another process puts an output file in place just before the task for it
\* starts
ExternalCreate(i) ==
  /\ mainpc = "gather" /\ IsNextWaiter(i)
  /\ ParquetPath(files[i]) \notin exists
  /\ exists' = exists \cup {ParquetPath(files[i])}
  /\ UNCHANGED <<files, force, existsAtSelect, run, firstRunComplete, mainpc, sem,
                 consecutive_failures, aborted, pc, results, dc, notices, streak,
                 tripped, successful_paths, failed_count, cli>>

Next ==
  \/ \E i \in Tasks : StartAborted(i)
  \/ \E i \in Tasks : StartSkip(i)
  \/ \E i \in Tasks : StartFail(i)
  \/ \E i \in Tasks : StartFetch(i)
  \/ \E i \in Tasks : FetchOk(i)
  \/ \E i \in Tasks : FetchFail(i)
  \/ \E i \in Tasks : ConvertOk(i)
  \/ \E i \in Tasks : ConvertFail(i)
  \/ Return
  \/ Restart
  \/ \E i \in Tasks : ExternalCreate(i)

Spec == Init /\ [][Next]_vars

\* the event loop runs the task at the head of the semaphore's waiters once
\* a slot is free, and resumes gather's caller once every task is done; a
\* fetch under way ends, and so does a conversion under way
Fairness ==
  /\ WF_vars(\E i \in Tasks :
               StartAborted(i) \/ StartSkip(i) \/ StartFail(i) \/ StartFetch(i))
  /\ WF_vars(\E i \in Tasks : FetchOk(i) \/ FetchFail(i))
  /\ WF_vars(\E i \in Tasks : ConvertOk(i) \/ ConvertFail(i))
  /\ WF_vars(Return)

\* one invocation on its own: force off, the disk empty or holding the first
\* entry's output
InitLive ==
  /\ \E n \in 1..MaxFiles : files = YellowFiles(n)
  /\ force = FALSE
  /\ exists \in {{}, {ParquetPath(files[1])}}
  /\ existsAtSelect = exists
  /\ run = 1
  /\ firstRunComplete = FALSE
  /\ InitInvocation
  /\ NoMain

NextLive ==
  \/ \E i \in Tasks : StartAborted(i)
  \/ \E i \in Tasks : StartSkip(i)
  \/ \E i \in Tasks : StartFail(i)
  \/ \E i \in Tasks : StartFetch(i)
  \/ \E i \in Tasks : FetchOk(i)
  \/ \E i \in Tasks : FetchFail(i)
  \/ \E i \in Tasks : ConvertOk(i)
  \/ \E i \in Tasks : ConvertFail(i)
  \/ Return

LiveSpec == InitLive /\ [][NextLive]_vars /\ Fairness

\* ------------------------------------------- the abort test's configuration

\* TestDownloadAllFilesAbort: twelve entries, nothing on disk, force off
InitAbortTest ==
  /\ files = YellowFiles(TEST_FILES)
  /\ force = FALSE
  /\ exists = {}
  /\ existsAtSelect = {}
  /\ run = 1
  /\ firstRunComplete = FALSE
  /\ InitInvocation
  /\ NoMain

\* every download_and_convert call raises: at once, in the fetch or in the
\* conversion
NextAbortTest ==
  \/ \E i \in Tasks : StartAborted(i)
  \/ \E i \in Tasks : StartFail(i)
  \/ \E i \in Tasks : StartFetch(i)
  \/ \E i \in Tasks : FetchOk(i)
  \/ \E i \in Tasks : FetchFail(i)
  \/ \E i \in Tasks : ConvertFail(i)
  \/ Return

SpecAbortTest == InitAbortTest /\ [][NextAbortTest]_vars

\* the same stub over selections of every length
InitAllFail ==
  /\ \E n \in 1..MaxFailFiles : files = YellowFiles(n)
  /\ force = FALSE
  /\ exists = {}
  /\ existsAtSelect = {}
  /\ run = 1
  /\ firstRunComplete = FALSE
  /\ InitInvocation
  /\ NoMain

SpecAllFail == InitAllFail /\ [][NextAbortTest]_vars

\* ---------------------------------------------------------------- main()

KNOWN_TAXI_TYPES == {"yellow", "green", "fhv", "fhvhv"}

\* "2009 <= year <= 2030" and "1 <= month <= 12" of validate_config
MIN_YEAR == 2009

MAX_YEAR == 2030

MIN_MONTH == 1

MAX_MONTH == 12

\* an optional argument: None, or the value given on the command line
None == <<>>

Some(v) == <<v>>

\* "if taxi_type": neither None nor the empty string
TruthyStr(opt) == opt # None /\ opt[1] # ""

\* "if year", "if month": neither None nor 0
TruthyInt(opt) == opt # None /\ opt[1] # 0

\* config[key] raises KeyError unless the key is there
HasKey(c, key) == key \in DOMAIN c

\* [error for year in config["years"] if not (2009 <= year <= 2030)]
YearErrors(years) ==
  LET bad == SelectSeq(years, LAMBDA y : ~(MIN_YEAR <= y /\ y <= MAX_YEAR))
  IN  [k \in 1..Len(bad) |-> [kind |-> "year", value |-> bad[k]]]

\* [error for month in config["months"] if not (1 <= month <= 12)]
MonthErrors(months) ==
  LET bad == SelectSeq(months, LAMBDA m : ~(MIN_MONTH <= m /\ m <= MAX_MONTH))
  IN  [k \in 1..Len(bad) |-> [kind |-> "month", value |-> bad[k]]]

\* one error naming all the unknown types, if there are any
TypeErrors(taxi_types) ==
  LET unknown_types == Range(taxi_types) \ KNOWN_TAXI_TYPES
  IN  IF unknown_types # {}
      THEN << [kind |-> "taxi_types", unknown |-> unknown_types] >>
      ELSE << >>

\* validate_config(config): the exception it ends with ("none" when it
\* returns) and the errors it printed
validate_config(c) ==
  IF ~HasKey(c, "taxi_types") \/ ~HasKey(c, "years") \/ ~HasKey(c, "months")
  THEN [exc |-> "KeyError", errors |-> << >>]
  ELSE LET errs == TypeErrors(c.taxi_types) \o YearErrors(c.years)
                     \o MonthErrors(c.months)
       IN  [exc |-> IF Len(errs) > 0 THEN "SystemExit" ELSE "none",
            errors |-> errs]

\* [(t, y, m) for t in taxi_types for y in years for m in months]
Product(T, Y, M) ==
  [k \in 1..(Len(T) * Len(Y) * Len(M)) |->
     << T[((k - 1) \div (Len(Y) * Len(M))) + 1],
        Y[(((k - 1) \div Len(M)) % Len(Y)) + 1],
        M[((k - 1) % Len(M)) + 1] >>]

\* build_file_list(config, taxi_type, year, month): the exception it ends
\* with ("none" when it returns) and the list it returns
build_file_list(c, taxi_type, year, month) ==
  IF \/ ~TruthyStr(taxi_type) /\ ~HasKey(c, "taxi_types")
     \/ ~TruthyInt(year) /\ ~HasKey(c, "years")
     \/ ~TruthyInt(month) /\ ~HasKey(c, "months")
  THEN [exc |-> "KeyError", files |-> << >>]
  ELSE LET taxi_types == IF TruthyStr(taxi_type) THEN <<taxi_type[1]>>
                         ELSE c.taxi_types
           years == IF TruthyInt(year) THEN <<year[1]>> ELSE c.years
           months == IF TruthyInt(month) THEN <<month[1]>> ELSE c.months
       IN  [exc |-> "none", files |-> Product(taxi_types, years, months)]

\* fault variant: the month is not padded to two digits
CategorizePath_Unpadded(entry) ==
  "data/" \o entry[1] \o "/" \o entry[1] \o "_tripdata_" \o IntStr(entry[2])
    \o "-" \o IntStr(entry[3]) \o ".parquet"

\* the parquet_path of categorize_files
CategorizePath(entry) ==
  "data/" \o entry[1] \o "/" \o entry[1] \o "_tripdata_" \o IntStr(entry[2])
    \o "-" \o Pad2(entry[3]) \o ".parquet"

\* categorize_files(files) on the disk as it is: (new, existing)
categorize_files(fs) ==
  [new |-> SelectSeq(fs, LAMBDA e : CategorizePath(e) \notin exists),
   existing |-> SelectSeq(fs, LAMBDA e : CategorizePath(e) \in exists)]

\* the taxi types load_into_duckdb goes through
LOADED_TAXI_TYPES == {"yellow", "green"}

\* the shard names of the model: what a directory listing can show
TypeUniverse == KNOWN_TAXI_TYPES \cup {"taxi"}

YearUniverse == {0, 1999, 2008, 2019, 2020, 2031}

MonthUniverse == {0, 1, 2, 13}

\* data_dir.glob("*.parquet"): the files under data/<taxi_type>/
Glob(taxi_type) ==
  {p \in exists : \E y \in YearUniverse, m \in MonthUniverse :
                     p = ParquetPath(<<taxi_type, y, m>>)}

\* the tables after load_into_duckdb: CREATE OR REPLACE for each type of the
\* loop that has a file, the other tables left as they were
load_into_duckdb ==
  LET loaded == {t \in LOADED_TAXI_TYPES : Glob(t) # {}}
  IN  [t \in loaded \cup DOMAIN tables |->
         IF t \in loaded THEN Glob(t) ELSE tables[t]]

\* the lists a group is drawn from: in and out of order, repeated, known and
\* unknown, in and out of range
TypeLists == {<<"yellow">>, <<"yellow", "green">>, <<"fhv">>, <<"taxi">>}

YearLists == {<<2019>>, <<2020, 2019>>, <<2008, 2031>>}

MonthLists == {<<1>>, <<2, 1>>, <<1, 1>>, <<0, 13>>}

\* the flat document the module reads: taxi_types, years and months at the
\* top level
FlatConfigs ==
  {[taxi_types |-> t, years |-> y, months |-> m] :
     t \in TypeLists, y \in YearLists, m \in MonthLists}

\* the groups of a document with a "datasets" list, as the tests write it:
\* two overlapping groups, one with a violation on every axis, one without
\* its months
GroupMenu ==
  {[taxi_types |-> <<"yellow", "green">>, years |-> <<2019>>, months |-> <<1, 2>>],
   [taxi_types |-> <<"green", "fhv">>, years |-> <<2019>>, months |-> <<2>>],
   [taxi_types |-> <<"taxi">>, years |-> <<2008>>, months |-> <<13>>],
   [taxi_types |-> <<"yellow">>, years |-> <<2019>>]}

IsWholeGroup(g) ==
  HasKey(g, "taxi_types") /\ HasKey(g, "years") /\ HasKey(g, "months")

\* what load_config can return
DrawConfig ==
  \/ /\ config \in FlatConfigs
     /\ configKind = "flat"
  \/ \E k \in 1..MaxGroups : \E gs \in [1..k -> GroupMenu] :
       /\ config = [datasets |-> gs]
       /\ configKind = IF \A i \in 1..k : IsWholeGroup(gs[i])
                       THEN "grouped" ELSE "group lacks a key"
  \/ /\ config = [taxi_types |-> <<"yellow">>]
     /\ configKind = "no datasets"
  \/ /\ config = [datasets |-> << >>]
     /\ configKind = "empty datasets"
  \/ /\ config = [datasets |-> "yellow"]
     /\ configKind = "datasets is no list"

\* what parse_args can return: --taxi-type of its choices, --year any
\* integer, --month of 1..12
DrawSelectors ==
  \E t \in {None, Some("yellow"), Some("green")},
     y \in {None, Some(0), Some(1999), Some(2020)},
     m \in {None, Some(1)} :
    \E d, n \in BOOLEAN :
      args = [taxi_type |-> t, year |-> y, month |-> m, dry_run |-> d,
              no_load |-> n]

\* the outputs an earlier run may have left
EarlierOutputs ==
  {ParquetPath(<<"yellow", 2019, 1>>), ParquetPath(<<"yellow", 2019, 2>>),
   ParquetPath(<<"fhv", 2019, 1>>)}

\* nothing of download_all_files has started
SchedulerIdle ==
  /\ sem = CONCURRENT_DOWNLOADS
  /\ consecutive_failures = 0
  /\ aborted = FALSE
  /\ pc = << >>
  /\ results = << >>
  /\ dc = << >>
  /\ notices = 0
  /\ streak = 0
  /\ tripped = FALSE
  /\ successful_paths = << >>
  /\ failed_count = 0
  /\ existsAtSelect = {}
  /\ run = 1
  /\ firstRunComplete = FALSE

sched == <<sem, consecutive_failures, aborted, pc, results, dc, notices, streak,
           tripped, successful_paths, failed_count, existsAtSelect, run,
           firstRunComplete>>

\* main() is entered with the arguments parsed and the document loaded
InitMain ==
  /\ DrawConfig
  /\ DrawSelectors
  /\ force \in BOOLEAN
  /\ exists \in SUBSET EarlierOutputs
  /\ files = << >>
  /\ raised = "none"
  /\ errors = << >>
  /\ new_files = << >>
  /\ existing_files = << >>
  /\ tables = << >>
  /\ mainpc = "validate"
  /\ SchedulerIdle

\* validate_config(config), line 358
Validate ==
  /\ mainpc = "validate"
  /\ LET v == validate_config(config)
     IN  /\ raised' = v.exc
         /\ errors' = v.errors
         /\ mainpc' = IF v.exc = "none" THEN "build" ELSE "done"
  /\ UNCHANGED <<files, force, exists, config, configKind, args, new_files,
                 existing_files, tables, sched>>

\* files_to_download = build_file_list(...) and the branches on it, lines
\* 359-370
BuildFileList ==
  /\ mainpc = "build"
  /\ LET b == build_file_list(config, args.taxi_type, args.year, args.month)
     IN  /\ raised' = b.exc
         /\ files' = b.files
         /\ mainpc' = IF b.exc # "none" \/ Len(b.files) = 0 THEN "done"
                      ELSE IF args.dry_run THEN "dry_run"
                      ELSE "download"
  /\ UNCHANGED <<force, exists, config, configKind, args, errors, new_files,
                 existing_files, tables, sched>>

\* the dry run, lines 370-387
DryRun ==
  /\ mainpc = "dry_run"
  /\ LET c == categorize_files(files)
     IN  /\ new_files' = c.new
         /\ existing_files' = c.existing
  /\ mainpc' = "done"
  /\ UNCHANGED <<files, force, exists, config, configKind, args, raised, errors,
                 tables, sched>>

\* await download_all_files(files_to_download, force=args.force), line 390,
\* by its effect on the disk: of the selection's outputs those that were
\* converted or skipped are there afterwards, whichever those are; with force
\* off an output that was there stays, with force on it is unlinked and is
\* there again only if its conversion went through
DownloadAll ==
  /\ mainpc = "download"
  /\ LET outputs == {ParquetPath(files[i]) : i \in 1..Len(files)}
     IN  \E present \in SUBSET outputs :
           /\ ~force => (exists \cap outputs) \subseteq present
           /\ exists' = (exists \ outputs) \cup present
  /\ mainpc' = IF args.no_load THEN "done" ELSE "load"
  /\ UNCHANGED <<files, force, config, configKind, args, raised, errors,
                 new_files, existing_files, tables, sched>>

\* load_into_duckdb(), line 393
Load ==
  /\ mainpc = "load"
  /\ tables' = load_into_duckdb
  /\ mainpc' = "done"
  /\ UNCHANGED <<files, force, exists, config, configKind, args, raised, errors,
                 new_files, existing_files, sched>>

NextMain ==
  \/ Validate
  \/ BuildFileList
  \/ DryRun
  \/ DownloadAll
  \/ Load

SpecMain == InitMain /\ [][NextMain]_vars

\* ---------------------------------------- build_file_list called directly

\* the tests' calls: build_file_list(config, taxi_type, year, month) on a
\* document as loaded
InitSelector ==
  /\ DrawConfig
  /\ \E t \in {None, Some("yellow"), Some("green"), Some("fhvhv")},
        y \in {None, Some(0), Some(1999), Some(2020)},
        m \in {None, Some(1)} :
       args = [taxi_type |-> t, year |-> y, month |-> m, dry_run |-> FALSE,
               no_load |-> FALSE]
  /\ force = FALSE
  /\ exists = {}
  /\ files = << >>
  /\ raised = "none"
  /\ errors = << >>
  /\ new_files = << >>
  /\ existing_files = << >>
  /\ tables = << >>
  /\ mainpc = "call"
  /\ SchedulerIdle

CallBuildFileList ==
  /\ mainpc = "call"
  /\ LET b == build_file_list(config, args.taxi_type, args.year, args.month)
     IN  /\ raised' = b.exc
         /\ files' = b.files
  /\ mainpc' = "done"
  /\ UNCHANGED <<force, exists, config, configKind, args, errors, new_files,
                 existing_files, tables, sched>>

NextSelector == CallBuildFileList

SpecSelector == InitSelector /\ [][NextSelector]_vars

\* ------------------------------------------------------------------ claims

\* call_count of the test: the tasks that called download_and_convert
Attempts == Cardinality({i \in Tasks : dc[i] # "not called"})

NotAttempted == {i \in Tasks : results[i] = NoneV}

\* C1: twelve entries, every download_and_convert call failing, threshold 5,
\* four slots: in every interleaving fewer than twelve calls are made and the
\* returned list is empty.
C1_AbortTestStopsEarly ==
  /\ Attempts < Len(files)
  /\ mainpc = "returned" => successful_paths = <<>>

\* the most calls the breaker lets through, with the rest not attempted
C1_Witness ==
  /\ mainpc = "returned" /\ aborted
  /\ Attempts = MAX_CONSECUTIVE_FAILURES + CONCURRENT_DOWNLOADS - 1
  /\ Cardinality(NotAttempted) = Len(files) - Attempts

\* C2: the flag goes up only in a step in which a call fails and brings the
\* failures since the last success to MAX_CONSECUTIVE_FAILURES; as long as that
\* number has not been reached the flag is down and no task is turned away, so
\* at the return every entry was attempted, whatever the total of failures.
C2_OnlyConsecutiveFailuresAbort ==
  [][/\ (~aborted /\ aborted') =>
          /\ streak' = MAX_CONSECUTIVE_FAILURES
          /\ \E i \in Tasks : dc[i] # "raised" /\ dc'[i] = "raised"
     /\ ~tripped' => (~aborted' /\ NotAttempted' = {})
     /\ (~tripped' /\ mainpc' = "returned") =>
          \A i \in Tasks : dc'[i] \in {"skipped", "path", "raised"}]_vars

\* a whole run with as many failures as the threshold, none of them aborting
C2_Witness ==
  /\ mainpc = "returned" /\ ~aborted
  /\ failed_count >= MAX_CONSECUTIVE_FAILURES
  /\ Attempts = Len(files)

\* C3: at most CONCURRENT_DOWNLOADS tasks are inside download_and_convert.
C3_AtMostCInFlight == Cardinality(InFlight) <= CONCURRENT_DOWNLOADS

\* all slots taken while further tasks wait
C3_Witness ==
  /\ Cardinality(InFlight) = CONCURRENT_DOWNLOADS
  /\ \E i \in Tasks : pc[i] = "waiting"

\* C4: with force off a fetch starts only for an entry whose output is absent
\* when its task starts; an output that appeared after the selection makes the
\* task return it without fetching.
C4_ExistenceCheckedAtTaskStart ==
  [][\A i \in Tasks :
       /\ (~force /\ pc[i] = "waiting" /\ pc'[i] = "fetching") =>
            ParquetPath(files[i]) \notin exists
       /\ (~force /\ ~aborted /\ pc[i] = "waiting" /\ pc'[i] # "waiting"
             /\ ParquetPath(files[i]) \in exists \ existsAtSelect) =>
            (dc'[i] = "skipped" /\ results'[i] = ParquetPath(files[i]))]_vars

\* a task skipped on an output that was not there at selection
C4_Witness ==
  \E i \in Tasks :
    /\ ~force /\ dc[i] = "skipped"
    /\ ParquetPath(files[i]) \notin existsAtSelect

FetchStarted == {i \in Tasks : dc[i] \in {"running", "path"} \/ pc[i] \in {"fetching", "converting"}}

C6_AbortedTaskNotAttempted ==
  [][/\ \A i \in Tasks :
          (aborted /\ pc[i] = "waiting" /\ pc'[i] # "waiting") =>
            /\ pc'[i] = "returned" /\ results'[i] = NoneV
            /\ dc'[i] = "not called"
            /\ exists' = exists
            /\ consecutive_failures' = consecutive_failures
     /\ mainpc' = "returned" =>
          failed_count' = Cardinality({i \in Tasks : dc'[i] = "raised"})]_vars

\* a returned run in which the flag turned a task away
C6_Witness ==
  /\ mainpc = "returned" /\ aborted
  /\ \E i \in Tasks : results[i] = NoneV /\ dc[i] = "not called"
  /\ failed_count = MAX_CONSECUTIVE_FAILURES

\* C7 as stated: one invocation prints the abort notice at most once.
C7_SingleAbortNotice == notices <= 1

\* C8: within an invocation the flag never goes down, also when a task in
\* flight at the abort succeeds and resets the counter, and with the flag up no
\* task calls download_and_convert or starts a fetch.
C8_AbortedIsOneWay ==
  [][(aborted /\ run' = run) =>
       /\ aborted'
       /\ \A i \in Tasks :
            /\ ~(pc[i] = "waiting" /\ pc'[i] = "fetching")
            /\ dc[i] = "not called" => dc'[i] = "not called"]_vars

\* the flag is up, a later success has reset the counter, the call returned
C8_Witness ==
  /\ aborted /\ consecutive_failures = 0 /\ mainpc = "returned"
  /\ \E i \in Tasks : dc[i] = "path"

\* C9: the flag cancels nothing: a task in flight when the flag is (or goes)
\* up stays in flight, with its completions enabled, until it resolves with its
\* path or its error, and the path of a task that finished Done is in the
\* returned list.
C9_InFlightTasksNotCancelled ==
  [][/\ \A i \in Tasks :
          (aborted /\ pc[i] = "fetching") => ENABLED (FetchOk(i) \/ FetchFail(i))
     /\ \A i \in Tasks :
          (aborted /\ pc[i] = "converting") => ENABLED (ConvertOk(i) \/ ConvertFail(i))
     /\ \A i \in Tasks :
          (aborted' /\ pc[i] \in {"fetching", "converting"}) =>
            \/ /\ pc'[i] \in {"fetching", "converting"}
               /\ results'[i] = PendingV
            \/ /\ pc'[i] = "returned"
               /\ \/ dc'[i] = "path" /\ results'[i] = ParquetPath(files[i])
                  \/ dc'[i] = "raised" /\ results'[i] = ExceptionV
     /\ mainpc' = "returned" =>
          \A i \in Tasks :
            dc'[i] = "path" => ParquetPath(files[i]) \in Range(successful_paths')]_vars

\* a task in flight at the abort finished Done and its path was returned
C9_Witness ==
  /\ mainpc = "returned" /\ aborted
  /\ notices = 1 /\ consecutive_failures = 0
  /\ \E i \in Tasks :
       /\ dc[i] = "path"
       /\ ParquetPath(files[i]) \in Range(successful_paths)
       /\ \A j \in Tasks : j # i => dc[j] = "raised"

RECURSIVE PathsOfCalls(_, _)
\* the paths download_and_convert returned, for the first k entries in list order
PathsOfCalls(d, k) ==
  IF k = 0 THEN <<>>
  ELSE IF d[k] \in {"skipped", "path"}
       THEN Append(PathsOfCalls(d, k - 1), ParquetPath(files[k]))
       ELSE PathsOfCalls(d, k - 1)

\* C10: the call never raises for failed tasks: a failure is kept as that
\* task's result and leaves every other task as it was, and the returned list
\* holds exactly the paths of the calls that returned one.
C10_FailuresCapturedNotRaised ==
  [][/\ mainpc' # "raised"
     /\ \A i \in Tasks :
          (dc[i] # "raised" /\ dc'[i] = "raised") =>
            /\ results'[i] = ExceptionV
            /\ \A j \in Tasks \ {i} : pc'[j] = pc[j] /\ results'[j] = results[j]
     /\ mainpc' = "returned" =>
          /\ \A i \in Tasks : results'[i] # PendingV
          /\ successful_paths' = PathsOfCalls(dc', Len(files))]_vars

\* a returned run mixing failures with later successes
C10_Witness ==
  /\ mainpc = "returned"
  /\ failed_count >= 2 /\ Len(successful_paths) >= 2
  /\ \E i, j \in Tasks : i < j /\ dc[i] = "raised" /\ dc[j] = "path"

\* C11: a task holds exactly one slot from its start to its return and hands
\* it back once on every way out, so the free slots plus the tasks in flight
\* always make CONCURRENT_DOWNLOADS, and all slots are free at the return.
C11_SlotsReleasedOnEveryExit ==
  /\ sem + Cardinality(InFlight) = CONCURRENT_DOWNLOADS
  /\ mainpc = "returned" => sem = CONCURRENT_DOWNLOADS

\* a returned run that went through skip, success, failure and the abort
C11_Witness ==
  /\ mainpc = "returned" /\ sem = CONCURRENT_DOWNLOADS
  /\ aborted /\ NotAttempted # {}
  /\ \E i \in Tasks : dc[i] = "raised"

\* a returned run that went through skip, success and failure
C11_WitnessMixed ==
  /\ mainpc = "returned" /\ sem = CONCURRENT_DOWNLOADS
  /\ \E i, j, k \in Tasks : dc[i] = "skipped" /\ dc[j] = "path" /\ dc[k] = "raised"

\* ------------------------------------------------- claims on the selection

\* the groups of a well-formed document: the flat document is one group
GroupsOf == IF configKind = "flat" THEN <<config>> ELSE config.datasets

WellFormed == configKind \in {"flat", "grouped"}

NoOverride == args.taxi_type = None /\ args.year = None /\ args.month = None

\* the Cartesian product of a group's axes, as a set
Expansion(T, Y, M) == {<<t, y, m>> : t \in T, y \in Y, m \in M}

\* the union of the groups' expansions
Selection ==
  UNION {Expansion(Range(GroupsOf[g].taxi_types), Range(GroupsOf[g].years),
                   Range(GroupsOf[g].months)) : g \in 1..Len(GroupsOf)}

\* Python's order on the category names
CategoryRank(t) ==
  CASE t = "fhv" -> 1 [] t = "fhvhv" -> 2 [] t = "green" -> 3
    [] t = "taxi" -> 4 [] t = "yellow" -> 5

\* the order of (type, year, month) tuples
ShardBefore(a, b) ==
  \/ CategoryRank(a[1]) < CategoryRank(b[1])
  \/ a[1] = b[1] /\ a[2] < b[2]
  \/ a[1] = b[1] /\ a[2] = b[2] /\ a[3] < b[3]

Ascending(seq) == \A k \in 1..(Len(seq) - 1) : ShardBefore(seq[k], seq[k + 1])

\* C12: without overrides build_file_list returns, for every document of one
\* or more groups, the union of the groups' Cartesian products, no triple
\* twice, in ascending (type, year, month) order.
C12_SortedDeduplicatedUnion ==
  (mainpc = "done" /\ WellFormed /\ NoOverride) =>
    /\ raised = "none"
    /\ Range(files) = Selection
    /\ Ascending(files)

\* each axis of each group with the override, where one is given, in its place
OverriddenSelection ==
  UNION {Expansion(
           IF args.taxi_type # None THEN {args.taxi_type[1]}
           ELSE Range(GroupsOf[g].taxi_types),
           IF args.year # None THEN {args.year[1]}
           ELSE Range(GroupsOf[g].years),
           IF args.month # None THEN {args.month[1]}
           ELSE Range(GroupsOf[g].months)) : g \in 1..Len(GroupsOf)}

\* the year given, if one is, is not 0
YearOverrideNonZero == args.year # None => args.year[1] # 0

\* C13: an override replaces its axis in every group: every triple of the
\* result carries the override value (here: a category, a month, a year
\* other than 0), and the result is what the groups give with that axis
\* replaced, non-empty also for a value no group declares.
C13_OverrideReplacesAxis ==
  (mainpc = "done" /\ WellFormed /\ ~NoOverride /\ YearOverrideNonZero) =>
    /\ raised = "none"
    /\ Len(files) > 0
    /\ \A k \in 1..Len(files) :
         /\ args.taxi_type # None => files[k][1] = args.taxi_type[1]
         /\ args.year # None => files[k][2] = args.year[1]
         /\ args.month # None => files[k][3] = args.month[1]
    /\ Range(files) = OverriddenSelection

Matches(e) ==
  /\ args.taxi_type # None => e[1] = args.taxi_type[1]
  /\ args.year # None => e[2] = args.year[1]
  /\ args.month # None => e[3] = args.month[1]

\* C14: with an override build_file_list returns the triples of the
\* selection without the override that match the override value, so a value
\* no group declares gives the empty list.
C14_OverrideFiltersSelection ==
  (mainpc = "done" /\ WellFormed /\ ~NoOverride) =>
    /\ raised = "none"
    /\ Range(files) = {e \in Selection : Matches(e)}

\* ------------------------------------------------- claims on the validation

InYearRange(y) == MIN_YEAR <= y /\ y <= MAX_YEAR

InMonthRange(m) == MIN_MONTH <= m /\ m <= MAX_MONTH

GroupHasViolation(g) ==
  \/ \E t \in Range(g.taxi_types) : t \notin KNOWN_TAXI_TYPES
  \/ \E y \in Range(g.years) : ~InYearRange(y)
  \/ \E m \in Range(g.months) : ~InMonthRange(m)

\* every value out of its domain is named by one of the errors
GroupViolationsReported(g) ==
  /\ \A t \in Range(g.taxi_types) : t \notin KNOWN_TAXI_TYPES =>
       \E k \in 1..Len(errors) :
         errors[k].kind = "taxi_types" /\ t \in errors[k].unknown
  /\ \A y \in Range(g.years) : ~InYearRange(y) =>
       \E k \in 1..Len(errors) : errors[k].kind = "year" /\ errors[k].value = y
  /\ \A m \in Range(g.months) : ~InMonthRange(m) =>
       \E k \in 1..Len(errors) : errors[k].kind = "month" /\ errors[k].value = m

\* C15: validate_config goes through every value of every group, reports
\* every violation, and ends with SystemExit exactly when there is one.
C15_AllViolationsThenSystemExit ==
  (mainpc # "validate" /\ WellFormed) =>
    /\ raised \in {"none", "SystemExit"}
    /\ raised = "SystemExit" <=>
         \E g \in 1..Len(GroupsOf) : GroupHasViolation(GroupsOf[g])
    /\ \A g \in 1..Len(GroupsOf) : GroupViolationsReported(GroupsOf[g])

\* C16: a document without "datasets", with an empty "datasets", with a
\* "datasets" that is no list, or with a group lacking one of its three keys
\* ends validate_config with SystemExit and with no other exception.
C16_MalformedDocumentIsSystemExit ==
  (mainpc # "validate" /\ ~WellFormed) => raised = "SystemExit"

\* ------------------------------------------------------ claims on the rest

DryRunDone == mainpc = "done" /\ raised = "none" /\ args.dry_run /\ Len(files) > 0

\* C17: categorize_files puts every entry in exactly one of new and existing,
\* in existing exactly when its output file
\* data/<type>/<type>_tripdata_<year>-<MM>.parquet is there, each list in the
\* order of the input; everything there gives ([], files), nothing there
\* (files, []).
C17_CategorizePartitions ==
  DryRunDone =>
    /\ Len(new_files) + Len(existing_files) = Len(files)
    /\ Range(new_files) \cup Range(existing_files) = Range(files)
    /\ Range(new_files) \cap Range(existing_files) = {}
    /\ \A e \in Range(existing_files) : ParquetPath(e) \in exists
    /\ \A e \in Range(new_files) : ParquetPath(e) \notin exists
    /\ existing_files = SelectSeq(files, LAMBDA e : e \in Range(existing_files))
    /\ new_files = SelectSeq(files, LAMBDA e : e \in Range(new_files))
    /\ (\A e \in Range(files) : ParquetPath(e) \in exists) =>
         new_files = << >> /\ existing_files = files
    /\ (\A e \in Range(files) : ParquetPath(e) \notin exists) =>
         new_files = files /\ existing_files = << >>

\* a dry run over a selection with a two-digit-padded month, part of it on
\* disk and part of it not
C17_Witness ==
  /\ DryRunDone
  /\ Len(new_files) > 0 /\ Len(existing_files) > 0

InDomain(e) ==
  e[1] \in KNOWN_TAXI_TYPES /\ InYearRange(e[2]) /\ InMonthRange(e[3])

\* C18: every entry main hands to download_all_files has its type in the
\* known set, its year in 2009..2030 and its month in 1..12, whatever the
\* document and the command line.
C18_OnlyLegalShardsDownloaded ==
  mainpc = "download" => \A k \in 1..Len(files) : InDomain(files[k])

\* C19: the list download_all_files returns is in (type, year, month) order,
\* in whatever order the tasks completed.
C19_ResultInShardOrder ==
  mainpc = "returned" =>
    \A j, k \in 1..Len(successful_paths) : j < k =>
      \E a, b \in Tasks :
        /\ ParquetPath(files[a]) = successful_paths[j]
        /\ ParquetPath(files[b]) = successful_paths[k]
        /\ ShardBefore(files[a], files[b])

LoadDone ==
  /\ mainpc = "done" /\ raised = "none" /\ Len(files) > 0
  /\ ~args.dry_run /\ ~args.no_load

\* C20: after load_into_duckdb every known category with an output file
\* under data/<category>/ has its table, made from all of that category's
\* files, and a category with no output file has no table.
C20_EveryCategoryLoaded ==
  LoadDone =>
    \A t \in KNOWN_TAXI_TYPES :
      /\ Glob(t) # {} => t \in DOMAIN tables /\ tables[t] = Glob(t)
      /\ Glob(t) = {} => t \notin DOMAIN tables

\* ------------------------------------------- claims on slots and the breaker

Fetching == {i \in Tasks : pc[i] = "fetching"}

Converting == {i \in Tasks : pc[i] = "converting"}

\* C21, as claimed: a task gives up its slot when its fetch is over, so the
\* slots in use are those of the fetching tasks alone.
C21_SlotsCountFetchesOnly ==
  mainpc = "gather" => sem = CONCURRENT_DOWNLOADS - Cardinality(Fetching)

\* C21, amended: a task keeps its slot through its conversion, so the
\* fetching tasks number at most CONCURRENT_DOWNLOADS less the converting
\* ones, and a task starts only while fewer than CONCURRENT_DOWNLOADS tasks
\* are fetching or converting.
C21_SlotHeldThroughConversion ==
  [][/\ Cardinality(Fetching) <= CONCURRENT_DOWNLOADS - Cardinality(Converting)
     /\ \A i \in Tasks :
          (pc[i] = "waiting" /\ pc'[i] = "fetching") =>
            Cardinality(Fetching) + Cardinality(Converting) < CONCURRENT_DOWNLOADS]_vars

\* a conversion under way, the other slots taken by fetches, a task kept
\* waiting
C21_Witness ==
  /\ Cardinality(Converting) = 1
  /\ Cardinality(Fetching) = CONCURRENT_DOWNLOADS - 1
  /\ \E i \in Tasks : pc[i] = "waiting"

\* C22: a task skipped because its output is there (force off) counts as a
\* success: it sets the counter to zero and its path is in the list
\* download_all_files returns, so failures with a skipped entry between them
\* do not add up.
C22_SkipCountsAsSuccess ==
  [][/\ \A i \in Tasks :
          (dc[i] # "skipped" /\ dc'[i] = "skipped") =>
            /\ ~force /\ ParquetPath(files[i]) \in exists
            /\ consecutive_failures' = 0
            /\ results'[i] = ParquetPath(files[i])
     /\ mainpc' = "returned" =>
          \A i \in Tasks : dc'[i] = "skipped" =>
            \E k \in 1..Len(successful_paths') :
              successful_paths'[k] = ParquetPath(files[i])]_vars

\* a returned run with as many failures as the threshold, a skipped entry
\* among them, and the breaker not tripped
C22_Witness ==
  /\ mainpc = "returned" /\ ~aborted
  /\ Cardinality({i \in Tasks : dc[i] = "raised"}) >= MAX_CONSECUTIVE_FAILURES
  /\ \E i \in Tasks : dc[i] = "skipped"
  /\ \A i \in Tasks : dc[i] \in {"raised", "skipped"}

\* C23: when every call fails, at most MAX_CONSECUTIVE_FAILURES +
\* CONCURRENT_DOWNLOADS - 1 calls are started, whatever the length of the
\* selection and the interleaving: at the failure that raises the flag at
\* most CONCURRENT_DOWNLOADS - 1 other tasks are in flight, and no call
\* starts once the flag is up.
C23_AttemptsBoundedWhenAllFail ==
  [][/\ Attempts' <= MAX_CONSECUTIVE_FAILURES + CONCURRENT_DOWNLOADS - 1
     /\ (~aborted /\ aborted') =>
          Cardinality({i \in Tasks : pc'[i] \in {"fetching", "converting"}})
            <= CONCURRENT_DOWNLOADS - 1
     /\ aborted =>
          \A i \in Tasks : dc[i] = "not called" => dc'[i] = "not called"]_vars

\* a selection longer than the bound, returned with the bound reached
C23_Witness ==
  /\ mainpc = "returned"
  /\ Len(files) > MAX_CONSECUTIVE_FAILURES + CONCURRENT_DOWNLOADS - 1
  /\ Attempts = MAX_CONSECUTIVE_FAILURES + CONCURRENT_DOWNLOADS - 1

\* C24: the list main hands to download_all_files holds no (type, year,
\* month) twice, for every document validate_config accepts, so no two tasks
\* of an invocation work on the same .csv.gz and .parquet paths.
C24_NoShardTwice ==
  mainpc = "download" =>
    \A j, k \in 1..Len(files) : j # k => files[j] # files[k]

\* C25: an output file that is there when download_all_files starts is
\* there when it returns, with force off and with force on.
C25_NoOutputLost ==
  mainpc = "returned" => existsAtSelect \subseteq exists

\* C26: with every fetch and every conversion that starts coming to an end,
\* every invocation of download_all_files returns, each task resolved as a
\* path, an exception or None: no task waits for a slot for ever, the flag
\* up or not.
C26_EveryInvocationReturns ==
  (mainpc = "gather") ~>
    (mainpc = "returned" /\ \A i \in Tasks : results[i] # PendingV)

\* a returned run of more tasks than slots in which tasks waited for a slot
\* and some were turned away by the flag
C26_Witness ==
  /\ mainpc = "returned"
  /\ Len(files) > CONCURRENT_DOWNLOADS
  /\ \E i \in Tasks : results[i] = NoneV
  /\ \E i \in Tasks : results[i] = ExceptionV
  /\ \A i \in Tasks : results[i] # PendingV

====
